---- MODULE Spec2Model ----
(***************************************************************************)
(* MemoryArena (Arena.hpp): a fixed-capacity bump allocator.               *)
(*                                                                         *)
(* Addresses are machine words of WordBits bits; all pointer and size_t    *)
(* arithmetic is taken modulo 2^WordBits, as the hardware does it.  The    *)
(* object sizes and alignments are the ones of the LP64 ABI the tests are  *)
(* written for.                                                            *)
(***************************************************************************)
EXTENDS Integers, Naturals, Sequences, FiniteSets, TLC

VARIABLES
    base_ptr,      \* char* const base_ptr: address of the buffer
    total_size,    \* const size_t total_size
    current_ptr,   \* char* current_ptr: the cursor, an absolute address
    fault,         \* TRUE once the process is gone: a placement-new outside the
                   \* buffer has trapped, or std::terminate was called
    last,          \* the last call made by the sequential caller, and its result
    arena_mutex,   \* mutable std::mutex arena_mutex: 0 or the owning thread
    pc,            \* per thread: where it stands in the operation it runs
    call,          \* per thread: the operation it runs and its arguments
    aligned_ptr,   \* per thread: the local aligned_ptr
    ret,           \* per thread: the value the operation is about to return
    snap,          \* per thread: the cursor when the thread entered the operation
    result,        \* per thread: the pointer a worker thread stored
    wtype,         \* the type the allocate workers are instantiated with
    lifo,          \* bookkeeping of a caller that frees in reverse order
    mix,           \* bookkeeping of a caller that counts constructors and destructors
    replay         \* bookkeeping of a caller that repeats its calls after a reset

vars == <<base_ptr, total_size, current_ptr, fault, last, arena_mutex, pc, call,
          aligned_ptr, ret, snap, result, wtype, lifo, mix, replay>>

arena   == <<base_ptr, total_size, current_ptr, fault>>
threads == <<arena_mutex, pc, call, aligned_ptr, ret, snap, result, wtype>>

----------------------------------------------------------------------------
(* Bounds of the model *)

WordBits == 8
NThreads == 2
MaxLifo  == 3

AddrSpace == 2 ^ WordBits
SIZE_MAX  == AddrSpace - 1
NULL      == 0

Wrap(x) == x % AddrSpace

(* sizeof / alignof of the types the tests allocate *)
Types ==
    { [name |-> "char",                 size |-> 1,  align |-> 1],
      [name |-> "int",                  size |-> 4,  align |-> 4],
      [name |-> "double",               size |-> 8,  align |-> 8],
      [name |-> "AlignedStruct",        size |-> 16, align |-> 16],
      [name |-> "HeavilyAlignedStruct", size |-> 32, align |-> 32] }

NoType == [name |-> "none", size |-> 0, align |-> 0]

(* The arenas the callers construct: <<address operator new[] returned, size>>. *)
(* The addresses are 32-aligned, 16-aligned (what malloc guarantees) and odd;  *)
(* every buffer lies well inside the address space, so that only a request of  *)
(* a size no buffer has can make address arithmetic wrap.                      *)
Arenas == {<<96, 8>>, <<112, 48>>, <<97, 63>>}

(* the largest of them *)
MaxCapacity == CHOOSE n \in {a[2] : a \in Arenas} : \A a \in Arenas : a[2] <= n

(* Element counts the callers pass to allocate_array: none, one, a few, as   *)
(* many as fill the largest arena, the most whose byte size is a size_t, and *)
(* one more; every count is a size_t, so that for a type of one byte "one    *)
(* more" is what SIZE_MAX / sizeof(T) + 1 evaluates to, 0                    *)
Counts(T) ==
    {0, 1, IF 5 * T.size <= MaxCapacity THEN 5 ELSE 2, MaxCapacity \div T.size,
     SIZE_MAX \div T.size, Wrap(SIZE_MAX \div T.size + 1)}

(* ... and to deallocate_array *)
FreeCounts(T) ==
    {0, 1, IF 5 * T.size <= MaxCapacity THEN 5 ELSE 2,
     SIZE_MAX \div T.size, Wrap(SIZE_MAX \div T.size + 1)}

(* Arguments callers pass to the public get_alignment *)
Alignments == {3, 8}

----------------------------------------------------------------------------
(* Word arithmetic *)

RECURSIVE BitAnd(_, _, _)
BitAnd(x, y, n) ==
    IF n = 0 THEN 0
    ELSE (x % 2) * (y % 2) + 2 * BitAnd(x \div 2, y \div 2, n - 1)

BitNot(x) == SIZE_MAX - x

(* (addr + alignment - 1) & ~(alignment - 1), tabulated for the alignments in use *)
AlignUp ==
    [alignment \in {T.align : T \in Types} \cup Alignments |->
        [addr \in 0 .. SIZE_MAX |->
            BitAnd(Wrap(addr + alignment - 1), BitNot(Wrap(alignment - 1)), WordBits)]]

(* a rounding of the distance from the buffer's start instead of the address *)
get_alignment_of_offset(cur, alignment) ==
    Wrap(base_ptr + AlignUp[alignment][Wrap(cur - base_ptr)])

(* get_alignment: the cursor's address rounded up to the alignment *)
get_alignment(cur, alignment) == AlignUp[alignment][cur]

(* remaining: total_size - (current_ptr - base_ptr), as a size_t *)
remaining(cur) == Wrap(total_size - (cur - base_ptr))

(* the cursor as a signed distance from the buffer's start *)
Offset == current_ptr - base_ptr

(* [a, a + n) lies in the buffer *)
InBuffer(a, n) == base_ptr <= a /\ a + n <= base_ptr + total_size

----------------------------------------------------------------------------
(* The operations, each as the function it computes on the cursor.          *)
(* ptr: the cursor afterwards; ret: the returned word; ctor/dtor: how many  *)
(* constructors/destructors ran; wrote: the region placement-new wrote to.  *)

Outcome(p, r, c, d, wa, wn) ==
    [ptr |-> p, ret |-> r, ctor |-> c, dtor |-> d, waddr |-> wa, wlen |-> wn]

(* allocate with ">=" in the test of line 75: an exact fit is refused *)
allocate_strict(cur, T) ==
    LET aligned == get_alignment(cur, T.align)
    IN  IF Wrap(aligned + T.size) >= Wrap(base_ptr + total_size)
        THEN Outcome(cur, NULL, 0, 0, 0, 0)
        ELSE Outcome(Wrap(aligned + T.size), aligned, 1, 0, aligned, T.size)

allocate(cur, T) ==
    LET aligned == get_alignment(cur, T.align)
    IN  IF Wrap(aligned + T.size) > Wrap(base_ptr + total_size)
        THEN Outcome(cur, NULL, 0, 0, 0, 0)
        ELSE Outcome(Wrap(aligned + T.size), aligned, 1, 0, aligned, T.size)

(* deallocate as it was before the underflow guard was added *)
deallocate_unguarded(cur, T) == Outcome(Wrap(cur - T.size), NULL, 0, 1, 0, 0)

deallocate(cur, T) ==
    IF Wrap(cur - T.size) >= base_ptr
    THEN Outcome(Wrap(cur - T.size), NULL, 0, 1, 0, 0)
    ELSE Outcome(cur, NULL, 0, 0, 0, 0)

(* allocate_array without the zero-count test of line 99 *)
allocate_array_no_zero_test(cur, T, count) ==
    IF count > SIZE_MAX \div T.size THEN Outcome(cur, NULL, 0, 0, 0, 0)
    ELSE LET array_size == Wrap(count * T.size)
             aligned    == get_alignment(cur, T.align)
         IN  IF Wrap(aligned + array_size) > Wrap(base_ptr + total_size)
             THEN Outcome(cur, NULL, 0, 0, 0, 0)
             ELSE Outcome(Wrap(aligned + array_size), aligned, count, 0,
                          aligned, array_size)

(* allocate_array with the element loop of lines 111-113 ahead of the test *)
(* of line 106                                                             *)
allocate_array_constructs_first(cur, T, count) ==
    IF count = 0 THEN Outcome(cur, NULL, 0, 0, 0, 0)
    ELSE IF count > SIZE_MAX \div T.size THEN Outcome(cur, NULL, 0, 0, 0, 0)
    ELSE LET array_size == Wrap(count * T.size)
             aligned    == get_alignment(cur, T.align)
         IN  IF Wrap(aligned + array_size) > Wrap(base_ptr + total_size)
             THEN Outcome(cur, NULL, count, 0, aligned, array_size)
             ELSE Outcome(Wrap(aligned + array_size), aligned, count, 0,
                          aligned, array_size)

allocate_array(cur, T, count) ==
    IF count = 0 THEN Outcome(cur, NULL, 0, 0, 0, 0)
    ELSE IF count > SIZE_MAX \div T.size THEN Outcome(cur, NULL, 0, 0, 0, 0)
    ELSE LET array_size == Wrap(count * T.size)
             aligned    == get_alignment(cur, T.align)
         IN  IF Wrap(aligned + array_size) > Wrap(base_ptr + total_size)
             THEN Outcome(cur, NULL, 0, 0, 0, 0)
             ELSE Outcome(Wrap(aligned + array_size), aligned, count, 0,
                          aligned, array_size)

deallocate_array(cur, T, count) ==
    IF count = 0 THEN Outcome(cur, NULL, 0, 0, 0, 0)
    ELSE LET array_size == Wrap(count * T.size)
         IN  IF Wrap(cur - array_size) >= base_ptr
             THEN Outcome(Wrap(cur - array_size), NULL, 0, count, 0, 0)
             ELSE Outcome(cur, NULL, 0, count, 0, 0)

(* a reset that rewinds by the buffer size instead of to the buffer start *)
reset_by_size(cur) == Outcome(Wrap(cur - total_size), NULL, 0, 0, 0, 0)

(* a reset that destroys an object on its way *)
reset_destroying(cur) == Outcome(base_ptr, NULL, 0, 1, 0, 0)

reset(cur) == Outcome(base_ptr, NULL, 0, 0, 0, 0)

Apply(c, cur) ==
    CASE c.op = "allocate"         -> allocate(cur, c.T)
      [] c.op = "deallocate"       -> deallocate(cur, c.T)
      [] c.op = "allocate_array"   -> allocate_array(cur, c.T, c.count)
      [] c.op = "deallocate_array" -> deallocate_array(cur, c.T, c.count)
      [] c.op = "reset"            -> reset(cur)
      [] c.op = "remaining"        -> Outcome(cur, remaining(cur), 0, 0, 0, 0)
      [] c.op = "get_alignment"    -> Outcome(cur, get_alignment(cur, c.count), 0, 0, 0, 0)

----------------------------------------------------------------------------
(* Calls *)

CallOf(o, T, n) == [op |-> o, T |-> T, count |-> n]
NoCall == CallOf("none", NoType, 0)

NoLast == [call |-> NoCall, before |-> 0, out |-> Outcome(0, NULL, 0, 0, 0, 0)]

Threads == 1 .. NThreads

(* the caller's own record of a run of allocations it frees in reverse order: *)
(* the types it holds, oldest first, and remaining() before the first of them *)
NoLifo == [phase |-> "idle", held |-> <<>>, start |-> 0]

(* the caller's own record of a run of objects and arrays it frees in reverse *)
(* order: the calls that made them and the pointers they returned, oldest    *)
(* first, and how many constructors and destructors have run since the run   *)
(* began                                                                     *)
NoMix == [phase |-> "idle", held |-> <<>>, ctors |-> 0, dtors |-> 0]

(* the caller's own record of the allocations it made on the fresh arena, in *)
(* order, with the pointers they returned, of whether the cursor was away    *)
(* from the buffer's start when it called reset(), and of the pointers the   *)
(* same calls returned after the reset                                       *)
NoReplay ==
    [phase |-> "idle", calls |-> <<>>, rets |-> <<>>, moved |-> FALSE, got |-> <<>>]

(* MemoryArena(size): the buffer is obtained, the cursor is at its start *)
Constructed ==
    /\ \E a \in Arenas : base_ptr = a[1] /\ total_size = a[2]
    /\ current_ptr = base_ptr
    /\ fault = FALSE
    /\ arena_mutex = 0

NoThreadRuns ==
    /\ pc = [t \in Threads |-> "idle"]
    /\ call = [t \in Threads |-> NoCall]
    /\ aligned_ptr = [t \in Threads |-> NULL]
    /\ ret = [t \in Threads |-> NULL]
    /\ snap = [t \in Threads |-> NULL]
    /\ result = [t \in Threads |-> NULL]

Init ==
    /\ Constructed
    /\ NoThreadRuns
    /\ last = NoLast
    /\ wtype = NoType
    /\ lifo = NoLifo
    /\ mix = NoMix
    /\ replay = NoReplay

----------------------------------------------------------------------------
(* A single caller: every operation runs from call to return in one step. *)

(* the call returns *)
Returns(c) ==
    /\ \E out \in {Apply(c, current_ptr)} :
           /\ current_ptr' = out.ptr
           /\ last' = [call |-> c, before |-> current_ptr, out |-> out]
    /\ UNCHANGED <<base_ptr, total_size, fault, threads>>

Do(c) == Returns(c) /\ UNCHANGED <<lifo, mix, replay>>

(* placement-new on storage outside the buffer may trap instead: allocate has *)
(* moved the cursor by then (line 78), allocate_array has not (line 115)      *)
Trap(c) ==
    /\ \E out \in {Apply(c, current_ptr)} :
           /\ out.wlen > 0
           /\ ~InBuffer(out.waddr, out.wlen)
           /\ current_ptr' = IF c.op = "allocate" THEN out.ptr ELSE current_ptr
           /\ last' = [call |-> c, before |-> current_ptr, out |-> out]
    /\ fault' = TRUE
    /\ UNCHANGED <<base_ptr, total_size, threads, lifo, mix, replay>>

Allocate ==
    /\ ~fault
    /\ \E T \in Types : Do(CallOf("allocate", T, 0))

Deallocate ==
    /\ ~fault
    /\ \E T \in Types : Do(CallOf("deallocate", T, 0))

AllocateArray ==
    /\ ~fault
    /\ \E T \in Types : \E n \in Counts(T) : Do(CallOf("allocate_array", T, n))

DeallocateArray ==
    /\ ~fault
    /\ \E T \in Types : \E n \in FreeCounts(T) : Do(CallOf("deallocate_array", T, n))

Reset ==
    /\ ~fault
    /\ Do(CallOf("reset", NoType, 0))

Remaining ==
    /\ ~fault
    /\ Do(CallOf("remaining", NoType, 0))

GetAlignment ==
    /\ ~fault
    /\ \E a \in Alignments : Do(CallOf("get_alignment", NoType, a))

AllocateTraps ==
    /\ ~fault
    /\ \E T \in Types : Trap(CallOf("allocate", T, 0))

AllocateArrayTraps ==
    /\ ~fault
    /\ \E T \in Types : \E n \in Counts(T) : Trap(CallOf("allocate_array", T, n))

Next ==
    \/ Allocate
    \/ Deallocate
    \/ AllocateArray
    \/ DeallocateArray
    \/ Reset
    \/ Remaining
    \/ GetAlignment
    \/ AllocateTraps
    \/ AllocateArrayTraps

Spec == Init /\ [][Next]_vars

----------------------------------------------------------------------------
(* A caller that allocates a run of objects and frees them in exact reverse   *)
(* order (test_deallocate_crash_scenarios, lines 103-109), again and again.   *)

LifoTypes == {T \in Types : T.name \in {"char", "int", "double"}}

(* an allocation made before the run begins, never freed *)
LifoSetup ==
    /\ ~fault
    /\ lifo.phase \in {"idle", "done"}
    /\ \E T \in LifoTypes : Returns(CallOf("allocate", T, 0))
    /\ lifo' = NoLifo
    /\ UNCHANGED <<mix, replay>>

(* T* p = arena.allocate<T>(); assert(p) *)
LifoAllocate ==
    /\ ~fault
    /\ lifo.phase \in {"idle", "done", "alloc"}
    /\ Len(lifo.held) < MaxLifo
    /\ \E T \in LifoTypes :
          /\ allocate(current_ptr, T).ret # NULL
          /\ Returns(CallOf("allocate", T, 0))
          /\ lifo' = [phase |-> "alloc",
                      held  |-> IF lifo.phase = "alloc" THEN Append(lifo.held, T)
                                ELSE <<T>>,
                      start |-> IF lifo.phase = "alloc" THEN lifo.start
                                ELSE remaining(current_ptr)]
    /\ UNCHANGED <<mix, replay>>

(* arena.deallocate<T>(p) of the youngest object still held *)
LifoDeallocate ==
    /\ ~fault
    /\ lifo.phase \in {"alloc", "free"}
    /\ Len(lifo.held) > 0
    /\ Returns(CallOf("deallocate", lifo.held[Len(lifo.held)], 0))
    /\ lifo' = [phase |-> IF Len(lifo.held) = 1 THEN "done" ELSE "free",
                held  |-> SubSeq(lifo.held, 1, Len(lifo.held) - 1),
                start |-> lifo.start]
    /\ UNCHANGED <<mix, replay>>

LifoNext == LifoSetup \/ LifoAllocate \/ LifoDeallocate

LifoSpec == Init /\ [][LifoNext]_vars

(* C3: after successful allocate<T_1>() ... allocate<T_n>() followed by       *)
(* deallocate<T_n>() ... deallocate<T_1>(), remaining() is what it was before *)
C3_LifoRoundTrip ==
    lifo.phase = "done" => remaining(current_ptr) = lifo.start

----------------------------------------------------------------------------
(* Threads sharing one arena.  An operation runs line by line; the           *)
(* std::lock_guard at its top blocks until the mutex is free and releases it *)
(* when the operation returns.  The thread's arguments become visible when   *)
(* it has the mutex.                                                         *)

(* a mutex that never blocks *)
MutexNeverBlocks == TRUE

(* std::mutex::lock can return *)
MutexFree == arena_mutex = 0

Goto(t, l) == pc' = [pc EXCEPT ![t] = l]

FirstLine(op) ==
    CASE op = "allocate"         -> "a74"
      [] op = "deallocate"       -> "d87"
      [] op = "allocate_array"   -> "aa99"
      [] op = "deallocate_array" -> "da122"
      [] op = "reset"            -> "r52"
      [] op = "remaining"        -> "m57"

(* the byte size of the request the thread runs *)
ByteSize(t) ==
    IF call[t].op \in {"allocate", "deallocate"} THEN call[t].T.size
    ELSE Wrap(call[t].count * call[t].T.size)

(* a thread calls a locking operation and reaches its lock_guard *)
Enter(t) ==
    /\ ~fault
    /\ pc[t] = "idle"
    /\ Goto(t, "lock")
    /\ UNCHANGED <<arena, last, lifo, mix, replay, arena_mutex, call, aligned_ptr, ret, snap,
                   result, wtype>>

(* std::lock_guard<std::mutex> lock(arena_mutex), for a call out of calls *)
Acquire(t, calls) ==
    /\ ~fault
    /\ pc[t] = "lock"
    /\ MutexFree
    /\ arena_mutex' = t
    /\ \E c \in calls :
          /\ call' = [call EXCEPT ![t] = c]
          /\ Goto(t, FirstLine(c.op))
    /\ snap' = [snap EXCEPT ![t] = current_ptr]
    /\ UNCHANGED <<arena, last, lifo, mix, replay, aligned_ptr, ret, result, wtype>>

(* allocate, lines 73-77: align the cursor, test the end of the buffer *)
AllocateCheck(t) ==
    /\ ~fault
    /\ pc[t] = "a74"
    /\ \E a \in {get_alignment(current_ptr, call[t].T.align)} :
          /\ aligned_ptr' = [aligned_ptr EXCEPT ![t] = a]
          /\ IF Wrap(a + call[t].T.size) > Wrap(base_ptr + total_size)
             THEN ret' = [ret EXCEPT ![t] = NULL] /\ Goto(t, "unlock")
             ELSE UNCHANGED ret /\ Goto(t, "a78")
    /\ UNCHANGED <<arena, last, lifo, mix, replay, arena_mutex, call, snap, result, wtype>>

(* allocate, line 78: current_ptr = aligned_ptr + sizeof(T) *)
AllocateAdvance(t) ==
    /\ ~fault
    /\ pc[t] = "a78"
    /\ current_ptr' = Wrap(aligned_ptr[t] + call[t].T.size)
    /\ Goto(t, "a79")
    /\ UNCHANGED <<base_ptr, total_size, fault, last, lifo, mix, replay, arena_mutex, call,
                   aligned_ptr, ret, snap, result, wtype>>

(* allocate, lines 79-80: new(aligned_ptr) T() *)
AllocateConstruct(t) ==
    /\ ~fault
    /\ pc[t] = "a79"
    /\ ret' = [ret EXCEPT ![t] = aligned_ptr[t]]
    /\ Goto(t, "unlock")
    /\ UNCHANGED <<arena, last, lifo, mix, replay, arena_mutex, call, aligned_ptr, snap,
                   result, wtype>>

(* deallocate, line 87: the underflow guard *)
DeallocateCheck(t) ==
    /\ ~fault
    /\ pc[t] = "d87"
    /\ IF Wrap(current_ptr - call[t].T.size) >= base_ptr
       THEN Goto(t, "d89")
       ELSE Goto(t, "unlock")
    /\ UNCHANGED <<arena, last, lifo, mix, replay, arena_mutex, call, aligned_ptr, ret, snap,
                   result, wtype>>

(* deallocate, line 89: object->~T() *)
DeallocateDestroy(t) ==
    /\ ~fault
    /\ pc[t] = "d89"
    /\ Goto(t, "d90")
    /\ UNCHANGED <<arena, last, lifo, mix, replay, arena_mutex, call, aligned_ptr, ret, snap,
                   result, wtype>>

(* deallocate, line 90: current_ptr -= sizeof(T) *)
DeallocateRetreat(t) ==
    /\ ~fault
    /\ pc[t] = "d90"
    /\ current_ptr' = Wrap(current_ptr - call[t].T.size)
    /\ Goto(t, "unlock")
    /\ UNCHANGED <<base_ptr, total_size, fault, last, lifo, mix, replay, arena_mutex, call,
                   aligned_ptr, ret, snap, result, wtype>>

(* allocate_array, lines 99-108: the count tests, the alignment, the end test *)
AllocateArrayCheck(t) ==
    /\ ~fault
    /\ pc[t] = "aa99"
    /\ IF call[t].count = 0 \/ call[t].count > SIZE_MAX \div call[t].T.size
       THEN /\ ret' = [ret EXCEPT ![t] = NULL]
            /\ Goto(t, "unlock")
            /\ UNCHANGED aligned_ptr
       ELSE \E a \in {get_alignment(current_ptr, call[t].T.align)} :
               /\ aligned_ptr' = [aligned_ptr EXCEPT ![t] = a]
               /\ IF Wrap(a + ByteSize(t)) > Wrap(base_ptr + total_size)
                  THEN ret' = [ret EXCEPT ![t] = NULL] /\ Goto(t, "unlock")
                  ELSE UNCHANGED ret /\ Goto(t, "aa111")
    /\ UNCHANGED <<arena, last, lifo, mix, replay, arena_mutex, call, snap, result, wtype>>

(* allocate_array, lines 110-113: new(array_start + i) T() for i = 0 .. count-1 *)
AllocateArrayConstruct(t) ==
    /\ ~fault
    /\ pc[t] = "aa111"
    /\ Goto(t, "aa115")
    /\ UNCHANGED <<arena, last, lifo, mix, replay, arena_mutex, call, aligned_ptr, ret, snap,
                   result, wtype>>

(* allocate_array, lines 115-116: current_ptr = aligned_ptr + array_size *)
AllocateArrayAdvance(t) ==
    /\ ~fault
    /\ pc[t] = "aa115"
    /\ current_ptr' = Wrap(aligned_ptr[t] + ByteSize(t))
    /\ ret' = [ret EXCEPT ![t] = aligned_ptr[t]]
    /\ Goto(t, "unlock")
    /\ UNCHANGED <<base_ptr, total_size, fault, last, lifo, mix, replay, arena_mutex, call,
                   aligned_ptr, snap, result, wtype>>

(* deallocate_array, line 122: if (count == 0) return *)
DeallocateArrayCheck(t) ==
    /\ ~fault
    /\ pc[t] = "da122"
    /\ IF call[t].count = 0 THEN Goto(t, "unlock") ELSE Goto(t, "da125")
    /\ UNCHANGED <<arena, last, lifo, mix, replay, arena_mutex, call, aligned_ptr, ret, snap,
                   result, wtype>>

(* deallocate_array, lines 125-127: (array + i - 1)->~T() for i = count .. 1 *)
DeallocateArrayDestroy(t) ==
    /\ ~fault
    /\ pc[t] = "da125"
    /\ Goto(t, "da128")
    /\ UNCHANGED <<arena, last, lifo, mix, replay, arena_mutex, call, aligned_ptr, ret, snap,
                   result, wtype>>

(* deallocate_array, lines 128-130: the underflow guard and the retreat *)
DeallocateArrayRetreat(t) ==
    /\ ~fault
    /\ pc[t] = "da128"
    /\ current_ptr' = IF Wrap(current_ptr - ByteSize(t)) >= base_ptr
                      THEN Wrap(current_ptr - ByteSize(t))
                      ELSE current_ptr
    /\ Goto(t, "unlock")
    /\ UNCHANGED <<base_ptr, total_size, fault, last, lifo, mix, replay, arena_mutex, call,
                   aligned_ptr, ret, snap, result, wtype>>

(* reset, line 52: current_ptr = base_ptr *)
ResetCursor(t) ==
    /\ ~fault
    /\ pc[t] = "r52"
    /\ current_ptr' = base_ptr
    /\ Goto(t, "unlock")
    /\ UNCHANGED <<base_ptr, total_size, fault, last, lifo, mix, replay, arena_mutex, call,
                   aligned_ptr, ret, snap, result, wtype>>

(* remaining, line 57: return total_size - (current_ptr - base_ptr) *)
RemainingRead(t) ==
    /\ ~fault
    /\ pc[t] = "m57"
    /\ ret' = [ret EXCEPT ![t] = remaining(current_ptr)]
    /\ Goto(t, "unlock")
    /\ UNCHANGED <<arena, last, lifo, mix, replay, arena_mutex, call, aligned_ptr, snap,
                   result, wtype>>

(* a return that leaves the mutex with the thread when the allocation failed, *)
(* as an explicit unlock() forgotten on the early returns would                *)
KeptAfterFailure(t) ==
    IF call[t].op \in {"allocate", "allocate_array"} /\ ret[t] = NULL THEN t ELSE 0

(* the owner of the mutex once the lock_guard of thread t is destroyed: nobody *)
UnlockedBy(t) == 0

(* ~lock_guard and return: the mutex is released, the locals are gone; a     *)
(* worker keeps the returned pointer and is done, other callers go on        *)
Unlock(t, worker) ==
    /\ ~fault
    /\ pc[t] = "unlock"
    /\ arena_mutex' = UnlockedBy(t)
    /\ Goto(t, IF worker THEN "done" ELSE "idle")
    /\ result' = IF worker THEN [result EXCEPT ![t] = ret[t]] ELSE result
    /\ call' = [call EXCEPT ![t] = NoCall]
    /\ aligned_ptr' = [aligned_ptr EXCEPT ![t] = NULL]
    /\ ret' = [ret EXCEPT ![t] = NULL]
    /\ snap' = [snap EXCEPT ![t] = NULL]
    /\ UNCHANGED <<arena, last, lifo, mix, replay, wtype>>

(* a thread calls the public get_alignment(alignment): no lock_guard *)
GetAlignmentEnter(t) ==
    /\ ~fault
    /\ pc[t] = "idle"
    /\ \E a \in Alignments :
          call' = [call EXCEPT ![t] = CallOf("get_alignment", NoType, a)]
    /\ Goto(t, "ga62")
    /\ UNCHANGED <<arena, last, lifo, mix, replay, arena_mutex, aligned_ptr, ret, snap,
                   result, wtype>>

(* get_alignment, lines 62-66: reads current_ptr, returns the aligned address *)
GetAlignmentRead(t) ==
    /\ ~fault
    /\ pc[t] = "ga62"
    /\ ret' = [ret EXCEPT ![t] = get_alignment(current_ptr, call[t].count)]
    /\ Goto(t, "ga67")
    /\ UNCHANGED <<arena, last, lifo, mix, replay, arena_mutex, call, aligned_ptr, snap,
                   result, wtype>>

(* get_alignment, line 67: it returns *)
GetAlignmentReturn(t) ==
    /\ ~fault
    /\ pc[t] = "ga67"
    /\ Goto(t, "idle")
    /\ call' = [call EXCEPT ![t] = NoCall]
    /\ ret' = [ret EXCEPT ![t] = NULL]
    /\ UNCHANGED <<arena, last, lifo, mix, replay, arena_mutex, aligned_ptr, snap, result,
                   wtype>>

AllocateSteps(t) ==
    AllocateCheck(t) \/ AllocateAdvance(t) \/ AllocateConstruct(t)

OtherSteps(t) ==
    \/ DeallocateCheck(t) \/ DeallocateDestroy(t) \/ DeallocateRetreat(t)
    \/ AllocateArrayCheck(t) \/ AllocateArrayConstruct(t) \/ AllocateArrayAdvance(t)
    \/ DeallocateArrayCheck(t) \/ DeallocateArrayDestroy(t)
    \/ DeallocateArrayRetreat(t)
    \/ ResetCursor(t) \/ RemainingRead(t)
    \/ GetAlignmentEnter(t) \/ GetAlignmentRead(t) \/ GetAlignmentReturn(t)

(* Small arenas, and counts, each a size_t, that keep the cursor inside them *)
ConcArenas == {<<96, 8>>, <<97, 8>>}

ConcTypes == {T \in Types : T.name \in {"char", "int", "double"}}

ConcCounts(T) == {0, 1, 2, Wrap(SIZE_MAX \div T.size + 1)}

ConcCalls ==
    {CallOf("allocate", T, 0) : T \in ConcTypes}
      \cup {CallOf("deallocate", T, 0) : T \in ConcTypes}
      \cup UNION {{CallOf("allocate_array", T, n) : n \in ConcCounts(T)} : T \in ConcTypes}
      \cup UNION {{CallOf("deallocate_array", T, n) : n \in ConcCounts(T)} : T \in ConcTypes}
      \cup {CallOf("reset", NoType, 0), CallOf("remaining", NoType, 0)}

ConcInit ==
    /\ \E a \in ConcArenas : base_ptr = a[1] /\ total_size = a[2]
    /\ current_ptr = base_ptr
    /\ fault = FALSE
    /\ arena_mutex = 0
    /\ NoThreadRuns
    /\ last = NoLast
    /\ wtype = NoType
    /\ lifo = NoLifo
    /\ mix = NoMix
    /\ replay = NoReplay

ConcNext ==
    \E t \in Threads :
        \/ Enter(t)
        \/ Acquire(t, ConcCalls)
        \/ AllocateSteps(t)
        \/ OtherSteps(t)
        \/ Unlock(t, FALSE)

ConcSpec == ConcInit /\ [][ConcNext]_vars

(* the threads are inside a locking operation, past its lock_guard *)
InCritical(t) == pc[t] \notin {"idle", "lock", "done", "ga62", "ga67"}

(* the thread is inside a public operation *)
InOperation(t) == pc[t] \notin {"idle", "lock", "done"}

(* the thread's next step reads or writes current_ptr *)
TouchesCursor(t) ==
    pc[t] \in {"a74", "a78", "d87", "d90", "aa99", "aa115", "da128", "r52", "m57",
               "ga62"}

(* C6: every public operation, get_alignment included, holds the mutex from  *)
(* its first line to its return, so no thread reads or writes the cursor     *)
(* while another thread is inside a critical section                         *)
C6_LockHeldThroughout ==
    /\ \A t \in Threads : InOperation(t) => arena_mutex = t
    /\ \A t \in Threads : \A u \in Threads \ {t} :
          ~(TouchesCursor(t) /\ InCritical(u))

(* C7: every locking call returns what the operation, run alone from the     *)
(* cursor it found when it took the mutex, returns, and leaves the cursor    *)
(* where that run leaves it; until then the cursor is the one it found       *)
C7_Linearized ==
    \A t \in Threads :
        InCritical(t) =>
            LET out == Apply(call[t], snap[t])
            IN  /\ current_ptr \in {snap[t], out.ptr}
                /\ pc[t] = "unlock" => (ret[t] = out.ret /\ current_ptr = out.ptr)

(* an allocation is about to return an object placed behind one allocated    *)
(* earlier, while another thread waits for the mutex                         *)
C7_Witness ==
    \E t \in Threads : \E u \in Threads \ {t} :
        /\ pc[t] = "unlock"
        /\ call[t].op = "allocate"
        /\ ret[t] # NULL
        /\ snap[t] # base_ptr
        /\ pc[u] = "lock"

----------------------------------------------------------------------------
(* test_thread_safety_concurrent_allocation: every thread runs the worker,   *)
(* here with one allocate<T>() each, on an arena sized for NThreads objects  *)
(* with or without room for the padding in front of the first                *)

WorkerInit ==
    /\ \E T \in Types : \E b \in {a[1] : a \in Arenas} : \E slack \in {0, T.align - 1} :
          /\ wtype = T
          /\ base_ptr = b
          /\ total_size = NThreads * T.size + slack
    /\ current_ptr = base_ptr
    /\ fault = FALSE
    /\ arena_mutex = 0
    /\ NoThreadRuns
    /\ last = NoLast
    /\ lifo = NoLifo
    /\ mix = NoMix
    /\ replay = NoReplay

WorkerNext ==
    \E t \in Threads :
        \/ Enter(t)
        \/ Acquire(t, {CallOf("allocate", wtype, 0)})
        \/ AllocateSteps(t)
        \/ Unlock(t, TRUE)

WorkerSpec == WorkerInit /\ [][WorkerNext]_vars

WorkersDone == \A t \in Threads : pc[t] = "done"

(* the bytes between the buffer's address and the next multiple of alignof(T) *)
FrontPad == (wtype.align - (base_ptr % wtype.align)) % wtype.align

AllSucceedDisjoint ==
    /\ \A t \in Threads : result[t] # NULL /\ InBuffer(result[t], wtype.size)
    /\ \A t \in Threads : \A u \in Threads \ {t} :
          \/ result[t] + wtype.size <= result[u]
          \/ result[u] + wtype.size <= result[t]

(* C5 as stated: with capacity >= N * sizeof(T) the N concurrent allocate<T>  *)
(* all succeed and return pairwise disjoint ranges                            *)
C5_AsStated ==
    (WorkersDone /\ total_size >= NThreads * wtype.size) => AllSucceedDisjoint

(* C5 amended: with capacity >= N * sizeof(T) plus the padding that aligns    *)
(* the buffer's address to alignof(T), the N concurrent allocate<T> all       *)
(* succeed and return pairwise disjoint ranges, under every interleaving      *)
C5_WithFrontPadding ==
    (WorkersDone /\ total_size >= FrontPad + NThreads * wtype.size)
        => AllSucceedDisjoint

(* all workers are done on an arena whose first object needed padding *)
C5_Witness ==
    /\ WorkersDone
    /\ FrontPad > 0
    /\ total_size >= FrontPad + NThreads * wtype.size
    /\ AllSucceedDisjoint

----------------------------------------------------------------------------
(* Properties of the single-caller arena *)

Allocating == last.call.op \in {"allocate", "allocate_array"}

(* the bytes the last allocation call asked for, as a mathematical integer *)
RequestBytes ==
    IF last.call.op = "allocate" THEN last.call.T.size
    ELSE last.call.count * last.call.T.size

(* C1: in every reachable state 0 <= offset <= capacity, and remaining()    *)
(* returns capacity - offset, whatever calls were made with whatever counts *)
C1_OffsetInBounds ==
    /\ 0 <= Offset
    /\ Offset <= total_size
    /\ remaining(current_ptr) = total_size - Offset

(* C2: an allocate or allocate_array whose aligned address plus byte size    *)
(* exceeds the capacity returns nullptr and leaves the cursor where it was   *)
C2_OverCapacityFails ==
    ( /\ Allocating
      /\ get_alignment(last.before, last.call.T.align) + RequestBytes
            > base_ptr + total_size )
    => /\ ~fault
       /\ last.out.ret = NULL
       /\ current_ptr = last.before

(* C4: the address a successful allocate or allocate_array returns is a      *)
(* multiple of alignof(T), whatever the alignment of the buffer's address    *)
C4_Aligned ==
    (Allocating /\ last.out.ret # NULL) => last.out.ret % last.call.T.align = 0

(* an over-aligned object was placed in a buffer whose address is odd *)
C4_Witness ==
    /\ last.call.op = "allocate"
    /\ last.call.T.align = 32
    /\ last.out.ret # NULL
    /\ base_ptr % 2 = 1
    /\ ~fault

(* C8: after reset() remaining() is the capacity, whatever came before, and  *)
(* a second reset() would leave the arena as the first one left it           *)
C8_ResetIdempotent ==
    last.call.op = "reset" =>
        /\ remaining(current_ptr) = total_size
        /\ reset(current_ptr).ptr = current_ptr

(* reset() was called with the cursor away from the start of the buffer *)
C8_Witness ==
    /\ last.call.op = "reset"
    /\ last.before # base_ptr
    /\ remaining(last.before) # total_size

(* C9: allocate_array<T>(count) with 1 <= count <= SIZE_MAX / sizeof(T) and  *)
(* count * sizeof(T) > remaining() returns nullptr and leaves the cursor     *)
(* where it was, also when aligned address + byte size wraps around          *)
C9_OversizeArrayFails ==
    ( /\ last.call.op = "allocate_array"
      /\ 1 <= last.call.count
      /\ last.call.count <= SIZE_MAX \div last.call.T.size
      /\ last.call.count * last.call.T.size > remaining(last.before) )
    => /\ ~fault
       /\ last.out.ret = NULL
       /\ current_ptr = last.before

(* allocate_array<T>(k) fits: the cursor is in the buffer and the k elements, *)
(* placed at the next multiple of alignof(T), end inside it                   *)
Fits(cur, T, k) ==
    /\ k >= 1
    /\ base_ptr <= cur
    /\ cur + ((T.align - (cur % T.align)) % T.align) + k * T.size
          <= base_ptr + total_size

DegenerateCount ==
    /\ last.call.op = "allocate_array"
    /\ \/ last.call.count = 0
       \/ last.call.count > SIZE_MAX \div last.call.T.size

(* C10: allocate_array<T>(0) and allocate_array<T>(count > SIZE_MAX/sizeof T) *)
(* return nullptr, construct nothing and leave the cursor where it was; the   *)
(* next allocate_array<T>(k) that fits (padding included) succeeds            *)
C10_DegenerateCountFails ==
    DegenerateCount =>
        /\ ~fault
        /\ last.out.ret = NULL
        /\ last.out.ctor = 0
        /\ last.out.wlen = 0
        /\ current_ptr = last.before
        /\ \A T \in Types : \A k \in Counts(T) :
              Fits(current_ptr, T, k) =>
                 LET next == allocate_array(current_ptr, T, k)
                 IN  /\ next.ret # NULL
                     /\ next.ctor = k
                     /\ next.ptr = next.ret + k * T.size

(* an overflowing count was refused on an arena that still has room for an array *)
C10_Witness ==
    /\ DegenerateCount
    /\ last.call.count > 0
    /\ last.before # base_ptr
    /\ \E T \in Types : Fits(current_ptr, T, 5)

(* a zero count was refused *)
C10_WitnessZero == DegenerateCount /\ last.call.count = 0

----------------------------------------------------------------------------
(* Deallocation of single objects *)

(* the cursor is inside the buffer: 0 <= offset <= capacity *)
CursorInBuffer(cur) == base_ptr <= cur /\ cur <= base_ptr + total_size

(* C11: deallocate<T>() called with 0 <= offset < sizeof(T) runs no          *)
(* destructor and leaves the cursor where it was, and an allocate<T>() that  *)
(* fits in the buffer after it succeeds                                      *)
C11_OverDeallocationNoOp ==
    ( /\ last.call.op = "deallocate"
      /\ CursorInBuffer(last.before)
      /\ last.before - base_ptr < last.call.T.size )
    => /\ ~fault
       /\ current_ptr = last.before
       /\ last.out.dtor = 0
       /\ \A T \in Types :
             Fits(current_ptr, T, 1) =>
                LET next == allocate(current_ptr, T)
                IN  /\ next.ret # NULL
                    /\ next.ret >= current_ptr
                    /\ next.ptr = next.ret + T.size

(* an object larger than what is allocated was freed on an arena that is not *)
(* empty and still has room for an object                                    *)
C11_Witness ==
    /\ last.call.op = "deallocate"
    /\ last.before > base_ptr
    /\ last.before - base_ptr < last.call.T.size
    /\ current_ptr = last.before
    /\ \E T \in Types : Fits(current_ptr, T, 1)

(* C12: every deallocate<T>() runs the destructor exactly once, whether or   *)
(* not the underflow guard fires; only the retreat of the cursor depends on  *)
(* offset - sizeof(T) >= 0                                                   *)
C12_DestructorOnEveryCall ==
    (last.call.op = "deallocate" /\ CursorInBuffer(last.before))
    => /\ last.out.dtor = 1
       /\ current_ptr = IF last.before - base_ptr - last.call.T.size >= 0
                        THEN last.before - last.call.T.size
                        ELSE last.before

----------------------------------------------------------------------------
(* Allocation of single objects *)

(* the bytes between an address and the next multiple of alignof(T) *)
PadOf(addr, T) == (T.align - (addr % T.align)) % T.align

(* C13: allocate<T>() succeeds if and only if the offset of the aligned      *)
(* address plus sizeof(T) is at most the capacity; after an allocation that  *)
(* fills the buffer exactly remaining() is 0 and no allocation succeeds      *)
C13_SucceedsIffFits ==
    (last.call.op = "allocate" /\ CursorInBuffer(last.before))
    => LET aligned_offset == last.before + PadOf(last.before, last.call.T) - base_ptr
       IN  /\ ~fault
           /\ last.out.ret # NULL <=> aligned_offset + last.call.T.size <= total_size
           /\ last.out.ret # NULL =>
                  remaining(current_ptr)
                      = total_size - (aligned_offset + last.call.T.size)
           /\ remaining(current_ptr) = 0 =>
                  \A T \in Types : allocate(current_ptr, T).ret = NULL

(* the second allocate<int>() on an arena of 8 bytes has filled it *)
C13_Witness ==
    /\ last.call.op = "allocate"
    /\ last.call.T.name = "int"
    /\ total_size = 8
    /\ last.before = base_ptr + 4
    /\ last.out.ret # NULL
    /\ remaining(current_ptr) = 0

(* the last call was an allocate<T>() that succeeded from inside the buffer *)
AllocateSucceeded ==
    /\ last.call.op = "allocate"
    /\ last.out.ret # NULL
    /\ CursorInBuffer(last.before)

(* C14 as stated: a successful allocate<T>() from offset o decreases         *)
(* remaining() by pad + sizeof(T), pad computed from the offset o, for every *)
(* base address of the buffer                                                *)
C14_PadFromOffset ==
    AllocateSucceeded =>
        remaining(last.before) - remaining(current_ptr)
            = PadOf(last.before - base_ptr, last.call.T) + last.call.T.size

(* C14 amended: a successful allocate<T>() from offset o decreases           *)
(* remaining() by pad + sizeof(T), pad computed from the absolute address    *)
(* base + o of the cursor                                                    *)
C14_PadFromAddress ==
    AllocateSucceeded =>
        remaining(last.before) - remaining(current_ptr)
            = PadOf(last.before, last.call.T) + last.call.T.size

(* an object was padded although its offset was a multiple of its alignment *)
C14_Witness ==
    /\ AllocateSucceeded
    /\ PadOf(last.before - base_ptr, last.call.T) = 0
    /\ PadOf(last.before, last.call.T) > 0
    /\ last.before > base_ptr

----------------------------------------------------------------------------
(* Failed allocations *)

(* C15: an allocate<T>() or allocate_array<T>(count) that returns nullptr    *)
(* has run no constructor and written no byte, so every region allocated     *)
(* before it is as it was; the cursor has not moved either                   *)
C15_FailureWritesNothing ==
    (Allocating /\ CursorInBuffer(last.before) /\ last.out.ret = NULL)
    => /\ ~fault
       /\ last.out.ctor = 0
       /\ last.out.wlen = 0
       /\ current_ptr = last.before

(* behind an array of five ints, an array that is larger than the whole      *)
(* buffer, but whose byte size is far from wrapping, was refused             *)
C15_Witness ==
    /\ last.call.op = "allocate_array"
    /\ last.call.T.name = "int"
    /\ last.before = base_ptr + 5 * last.call.T.size
    /\ last.call.count * last.call.T.size > total_size
    /\ last.before + last.call.count * last.call.T.size < AddrSpace
    /\ last.out.ret = NULL

----------------------------------------------------------------------------
(* A caller that allocates a mix of objects and arrays of a type that counts *)
(* its constructor and destructor calls (TestObject, test_mixed_allocation), *)
(* and then frees them all in reverse order, each with its own type and      *)
(* count.                                                                    *)

MixTypes == {T \in Types : T.name \in {"char", "int"}}

(* array lengths: a pair, and the most whose byte size is a size_t *)
MixCounts(T) == {2, SIZE_MAX \div T.size}

(* what the caller keeps of an allocation: the call and the pointer it returned *)
Held(c, p) == [op |-> c.op, T |-> c.T, count |-> c.count, addr |-> p]

(* T* p = arena.allocate<T>() or arena.allocate_array<T>(n), with p != nullptr *)
MixPush(c) ==
    /\ mix.phase \in {"idle", "done", "alloc"}
    /\ Len(mix.held) < MaxLifo
    /\ Apply(c, current_ptr).ret # NULL
    /\ Returns(c)
    /\ mix' = [phase |-> "alloc",
               held  |-> IF mix.phase = "alloc"
                         THEN Append(mix.held, Held(c, Apply(c, current_ptr).ret))
                         ELSE <<Held(c, Apply(c, current_ptr).ret)>>,
               ctors |-> (IF mix.phase = "alloc" THEN mix.ctors ELSE 0)
                            + Apply(c, current_ptr).ctor,
               dtors |-> IF mix.phase = "alloc" THEN mix.dtors ELSE 0]
    /\ UNCHANGED <<lifo, replay>>

MixAllocate ==
    /\ ~fault
    /\ \E T \in MixTypes : MixPush(CallOf("allocate", T, 0))

MixAllocateArray ==
    /\ ~fault
    /\ \E T \in MixTypes : \E n \in MixCounts(T) :
          MixPush(CallOf("allocate_array", T, n))

(* the constructor of an object placed outside the buffer traps *)
MixTraps ==
    /\ ~fault
    /\ mix.phase \in {"idle", "done", "alloc"}
    /\ Len(mix.held) < MaxLifo
    /\ \/ \E T \in MixTypes : Trap(CallOf("allocate", T, 0))
       \/ \E T \in MixTypes : \E n \in MixCounts(T) :
             Trap(CallOf("allocate_array", T, n))

(* the call that frees what the call c allocated *)
FreeOf(c) ==
    IF c.op = "allocate" THEN CallOf("deallocate", c.T, 0)
    ELSE CallOf("deallocate_array", c.T, c.count)

(* arena.deallocate<T>(p) or arena.deallocate_array<T>(p, n) of the youngest *)
(* allocation still held                                                     *)
MixPop(op) ==
    /\ mix.phase \in {"alloc", "free"}
    /\ Len(mix.held) > 0
    /\ mix.held[Len(mix.held)].op = op
    /\ \E c \in {FreeOf(mix.held[Len(mix.held)])} :
          /\ Returns(c)
          /\ mix' = [phase |-> IF Len(mix.held) = 1 THEN "done" ELSE "free",
                     held  |-> SubSeq(mix.held, 1, Len(mix.held) - 1),
                     ctors |-> mix.ctors,
                     dtors |-> mix.dtors + Apply(c, current_ptr).dtor]
    /\ UNCHANGED <<lifo, replay>>

MixDeallocate ==
    /\ ~fault
    /\ MixPop("allocate")

MixDeallocateArray ==
    /\ ~fault
    /\ MixPop("allocate_array")

MixNext ==
    \/ MixAllocate
    \/ MixAllocateArray
    \/ MixTraps
    \/ MixDeallocate
    \/ MixDeallocateArray

MixSpec == Init /\ [][MixNext]_vars

(* C16: a successful allocate<T>() runs one constructor, a successful        *)
(* allocate_array<T>(n) runs n, a deallocate<T>(p) of the most recent        *)
(* allocation runs one destructor, a deallocate_array<T>(p, n) runs n; once  *)
(* everything allocated has been freed in reverse order, as many destructors *)
(* as constructors have run                                                  *)
C16_ConstructorsMatchDestructors ==
    /\ (last.call.op = "allocate" /\ last.out.ret # NULL) => last.out.ctor = 1
    /\ (last.call.op = "allocate_array" /\ last.out.ret # NULL)
          => last.out.ctor = last.call.count
    /\ last.call.op = "deallocate" => last.out.dtor = 1
    /\ last.call.op = "deallocate_array" => last.out.dtor = last.call.count
    /\ mix.phase = "done" => mix.dtors = mix.ctors

----------------------------------------------------------------------------
(* Deallocation of arrays *)

(* C17: deallocate_array<T>(p, 0) runs no destructor and leaves the cursor;  *)
(* deallocate_array<T>(p, count) with count > 0 runs count destructors and   *)
(* then retreats the cursor by count * sizeof(T), but only if that does not  *)
(* take the offset below 0                                                   *)
C17_ArrayDeallocation ==
    (last.call.op = "deallocate_array" /\ CursorInBuffer(last.before))
    => IF last.call.count = 0
       THEN /\ last.out.dtor = 0
            /\ current_ptr = last.before
       ELSE /\ last.out.dtor = last.call.count
            /\ current_ptr =
                  IF last.before - base_ptr - last.call.count * last.call.T.size >= 0
                  THEN last.before - last.call.count * last.call.T.size
                  ELSE last.before

----------------------------------------------------------------------------
(* reset *)

(* C18: a reset() moves the cursor to the start of the buffer and does       *)
(* nothing else: it runs no destructor and no constructor, writes no byte of *)
(* the buffer, and leaves the buffer's address and the capacity as they were *)
C18_ResetMovesOnlyTheCursor ==
    [][last'.call.op = "reset" =>
          /\ current_ptr' = base_ptr
          /\ base_ptr' = base_ptr
          /\ total_size' = total_size
          /\ fault' = fault
          /\ arena_mutex' = arena_mutex
          /\ last'.out.dtor = 0
          /\ last'.out.ctor = 0
          /\ last'.out.wlen = 0]_vars

(* reset() was called while objects were live in the buffer *)
C18_Witness ==
    /\ last.call.op = "reset"
    /\ last.before > base_ptr
    /\ CursorInBuffer(last.before)
    /\ current_ptr = base_ptr

----------------------------------------------------------------------------
(* Progress of the threads sharing one arena *)

(* the calls the threads make: one type, arrays of at most two elements *)
LiveCalls == {c \in ConcCalls : c.T.name \in {"int", "none"} /\ c.count <= 2}

LiveNext ==
    \E t \in Threads :
        \/ Enter(t)
        \/ Acquire(t, LiveCalls)
        \/ AllocateSteps(t)
        \/ OtherSteps(t)
        \/ Unlock(t, FALSE)

(* a step of a thread that is inside an operation, up to and including the *)
(* return                                                                  *)
Progress(t) ==
    \/ AllocateSteps(t)
    \/ pc[t] # "idle" /\ OtherSteps(t)
    \/ Unlock(t, FALSE)

(* every thread inside an operation keeps running (constructors and         *)
(* destructors terminate), and the mutex is fair: a thread that finds it     *)
(* free again and again gets it                                              *)
LiveSpec ==
    /\ ConcInit
    /\ [][LiveNext]_vars
    /\ \A t \in Threads : WF_vars(Progress(t))
    /\ \A t \in Threads : SF_vars(Acquire(t, LiveCalls))

(* C19: under a fair mutex every call that reaches its lock_guard acquires   *)
(* the mutex, runs and returns, and every call of get_alignment returns      *)
C19_EveryCallReturns ==
    \A t \in Threads : (pc[t] # "idle") ~> (pc[t] = "idle")

(* a thread waits at its lock_guard while another is inside its critical *)
(* section, about to return a failure                                    *)
C19_Witness ==
    \E t \in Threads : \E u \in Threads \ {t} :
        /\ pc[t] = "lock"
        /\ arena_mutex = u
        /\ pc[u] = "unlock"
        /\ call[u].op \in {"allocate", "allocate_array"}
        /\ ret[u] = NULL

----------------------------------------------------------------------------
(* Results of the successful allocations *)

(* the last call was an allocation from a cursor inside the buffer that *)
(* returned an address to its caller                                    *)
AllocationReturned ==
    /\ Allocating
    /\ CursorInBuffer(last.before)
    /\ last.out.ret # NULL
    /\ ~fault

(* C20: a successful allocate<T>() returns the aligned address and leaves    *)
(* the cursor sizeof(T) after it, strictly above the previous cursor; a      *)
(* successful allocate_array<T>(count) returns the aligned address of        *)
(* element 0, constructs count elements and leaves the cursor                *)
(* count * sizeof(T) after the aligned address                               *)
C20_SuccessfulAllocation ==
    AllocationReturned =>
        /\ last.out.ret = last.before + PadOf(last.before, last.call.T)
        /\ last.call.op = "allocate" =>
              /\ last.out.ctor = 1
              /\ current_ptr = last.out.ret + last.call.T.size
              /\ current_ptr > last.before
        /\ last.call.op = "allocate_array" =>
              /\ last.out.ctor = last.call.count
              /\ current_ptr = last.out.ret + last.call.count * last.call.T.size

----------------------------------------------------------------------------
(* Round trip of an array *)

(* the step is the deallocate_array<T>(p, n) of the array the last call, a *)
(* successful allocate_array<T>(n) from inside the buffer, returned        *)
FreesLastArray ==
    /\ AllocationReturned
    /\ last.call.op = "allocate_array"
    /\ last'.call = CallOf("deallocate_array", last.call.T, last.call.count)
    /\ last'.before = current_ptr
    /\ ~fault'

(* C21: a successful allocate_array<T>(n) immediately followed by            *)
(* deallocate_array<T>(p, n) brings remaining() back to what it was before   *)
(* the allocation, from every reachable offset                               *)
C21_ArrayRoundTrip ==
    [][FreesLastArray => remaining(current_ptr') = remaining(last.before)]_vars

----------------------------------------------------------------------------
(* A caller that allocates on the fresh arena, goes on using it, calls       *)
(* reset() and repeats its first allocations (test_memory_corruption_        *)
(* detection, lines 229-234; test_stress_rapid_operations).                  *)

(* how many allocations the caller repeats *)
MaxReplay == 2

ReplayTypes == {T \in Types : T.name \in {"char", "int", "double"}}

(* the allocations the caller makes: objects, a pair of ints, and as many *)
(* chars as a size_t can count                                             *)
ReplayCalls ==
    {CallOf("allocate", T, 0) : T \in ReplayTypes}
      \cup {CallOf("allocate_array", T, 2) : T \in {U \in ReplayTypes : U.size = 4}}
      \cup {CallOf("allocate_array", T, SIZE_MAX) : T \in {U \in ReplayTypes : U.size = 1}}

(* what the caller does between its first allocations and the reset *)
ChurnCalls ==
    {c \in ReplayCalls : c.count <= 2}
      \cup {CallOf("deallocate", T, 0) : T \in {U \in ReplayTypes : U.size = 4}}
      \cup {CallOf("deallocate_array", T, 2) : T \in {U \in ReplayTypes : U.size = 4}}

(* an allocation on the arena nothing else has been done with *)
ReplayRecord ==
    /\ ~fault
    /\ replay.phase \in {"idle", "record"}
    /\ Len(replay.calls) < MaxReplay
    /\ \E c \in ReplayCalls :
          /\ Returns(c)
          /\ replay' = [replay EXCEPT !.phase = "record",
                                      !.calls = Append(@, c),
                                      !.rets  = Append(@, Apply(c, current_ptr).ret)]
    /\ UNCHANGED <<lifo, mix>>

(* any further call *)
ReplayChurn ==
    /\ ~fault
    /\ replay.phase \in {"record", "churn", "replay"}
    /\ Len(replay.got) \in {0, Len(replay.calls)}
    /\ \E c \in ChurnCalls : Returns(c)
    /\ replay' = [replay EXCEPT !.phase = "churn", !.moved = FALSE, !.got = <<>>]
    /\ UNCHANGED <<lifo, mix>>

(* arena.reset() *)
ReplayReset ==
    /\ ~fault
    /\ replay.phase \in {"record", "churn"}
    /\ Returns(CallOf("reset", NoType, 0))
    /\ replay' = [replay EXCEPT !.phase = "replay",
                                !.moved = (current_ptr # base_ptr),
                                !.got   = <<>>]
    /\ UNCHANGED <<lifo, mix>>

(* the next of the first allocations, once more *)
ReplayAgain ==
    /\ ~fault
    /\ replay.phase = "replay"
    /\ Len(replay.got) < Len(replay.calls)
    /\ \E c \in {replay.calls[Len(replay.got) + 1]} :
          /\ Returns(c)
          /\ replay' = [replay EXCEPT !.got = Append(@, Apply(c, current_ptr).ret)]
    /\ UNCHANGED <<lifo, mix>>

(* the constructor of an object placed outside the buffer traps *)
ReplayTraps ==
    /\ ~fault
    /\ \E c \in ReplayCalls : Trap(c)

ReplayNext ==
    \/ ReplayRecord
    \/ ReplayChurn
    \/ ReplayReset
    \/ ReplayAgain
    \/ ReplayTraps

ReplaySpec == Init /\ [][ReplayNext]_vars

(* C22: the allocate and allocate_array calls made after a reset() return    *)
(* the addresses and the failures the same calls returned on the fresh       *)
(* arena, whatever was done with the arena before the reset                  *)
C22_ResetIsFresh ==
    replay.phase = "replay" =>
        replay.got = SubSeq(replay.rets, 1, Len(replay.got))

(* after a reset() made with the cursor away from the buffer's start, the    *)
(* caller got its first object at the same address again, and its second     *)
(* allocation failed again                                                   *)
C22_Witness ==
    /\ replay.phase = "replay"
    /\ replay.moved
    /\ Len(replay.got) = 2
    /\ replay.got = replay.rets
    /\ replay.got[1] # NULL
    /\ replay.got[2] = NULL

----------------------------------------------------------------------------
(* The regions the allocations return *)

(* the bytes of the region a held allocation was given, as an integer *)
RegionBytes(h) == IF h.op = "allocate" THEN h.T.size ELSE h.count * h.T.size

(* the first address after the region *)
RegionEnd(h) == h.addr + RegionBytes(h)

(* C23: every region a successful allocate<T>() or allocate_array<T>(count)  *)
(* returned lies inside the buffer, and the regions returned by successive   *)
(* successful allocations, with no deallocate, deallocate_array or reset in  *)
(* between, are pairwise disjoint                                            *)
C23_RegionsInsideAndDisjoint ==
    mix.phase = "alloc" =>
        /\ \A i \in 1 .. Len(mix.held) :
              InBuffer(mix.held[i].addr, RegionBytes(mix.held[i]))
        /\ \A i \in 1 .. Len(mix.held) : \A j \in (i + 1) .. Len(mix.held) :
              RegionEnd(mix.held[i]) <= mix.held[j].addr

(* C24: under strict stack discipline (every deallocate and deallocate_array *)
(* names the most recent allocation still live, with its own type and count, *)
(* no reset) the cursor is at or past the end of every live region in every  *)
(* reachable state, so that no later allocation overlaps a live object       *)
C24_CursorPastLiveRegions ==
    \A i \in 1 .. Len(mix.held) : RegionEnd(mix.held[i]) <= current_ptr

----------------------------------------------------------------------------
(* The underflow guard of deallocate_array *)

(* C25: deallocate_array<T>(p, count) called with 0 <= offset <= capacity    *)
(* leaves 0 <= offset <= capacity for every count, also when                 *)
(* count * sizeof(T) wraps and when the byte size is larger than the         *)
(* cursor's address                                                         *)
C25_DeallocateArrayKeepsBounds ==
    (last.call.op = "deallocate_array" /\ CursorInBuffer(last.before))
        => CursorInBuffer(current_ptr)

----------------------------------------------------------------------------
(* Types whose default constructor throws.  The exception leaves the        *)
(* operation through its lock_guard, which releases the mutex, and reaches  *)
(* the caller.                                                              *)

(* allocate, line 79: T() throws; line 78 has run *)
AllocateConstructThrows(t) ==
    /\ ~fault
    /\ pc[t] = "a79"
    /\ Goto(t, "unwind")
    /\ UNCHANGED <<arena, last, lifo, mix, replay, arena_mutex, call, aligned_ptr,
                   ret, snap, result, wtype>>

(* allocate_array, line 112: T() throws for some element; line 115 has not *)
(* run, the elements constructed so far are not destroyed                  *)
AllocateArrayConstructThrows(t) ==
    /\ ~fault
    /\ pc[t] = "aa111"
    /\ Goto(t, "unwind")
    /\ UNCHANGED <<arena, last, lifo, mix, replay, arena_mutex, call, aligned_ptr,
                   ret, snap, result, wtype>>

(* stack unwinding: ~lock_guard releases the mutex, the locals are gone, the *)
(* caller catches the exception                                              *)
Unwind(t) ==
    /\ ~fault
    /\ pc[t] = "unwind"
    /\ arena_mutex' = UnlockedBy(t)
    /\ Goto(t, "idle")
    /\ call' = [call EXCEPT ![t] = NoCall]
    /\ aligned_ptr' = [aligned_ptr EXCEPT ![t] = NULL]
    /\ ret' = [ret EXCEPT ![t] = NULL]
    /\ snap' = [snap EXCEPT ![t] = NULL]
    /\ UNCHANGED <<arena, last, lifo, mix, replay, result, wtype>>

ThrowNext ==
    \E t \in Threads :
        \/ Enter(t)
        \/ Acquire(t, ConcCalls)
        \/ AllocateSteps(t)
        \/ OtherSteps(t)
        \/ Unlock(t, FALSE)
        \/ AllocateConstructThrows(t)
        \/ AllocateArrayConstructThrows(t)
        \/ Unwind(t)

ThrowSpec == ConcInit /\ [][ThrowNext]_vars

(* C26: an allocate<T>() or allocate_array<T>(count) whose constructor       *)
(* throws leaves the cursor where it was when the call took the mutex, and   *)
(* the thread does not hold the mutex once the exception has left the call   *)
C26_ThrowingConstructorFails ==
    \A t \in Threads :
        /\ pc[t] = "unwind" => current_ptr = snap[t]
        /\ pc[t] = "idle" => arena_mutex # t

----------------------------------------------------------------------------
(* Types whose constructor or destructor calls allocate, deallocate, reset  *)
(* or remaining on the arena that is running it.  The nested operation      *)
(* starts with std::lock_guard<std::mutex> on arena_mutex, which the thread *)
(* already owns: std::mutex is not recursive and lock() by the owner is     *)
(* undefined; it never returns, or it throws std::system_error              *)
(* (resource_deadlock_would_occur).                                         *)

(* the thread is running a constructor (lines 79, 112) *)
InConstructor(t) == pc[t] \in {"a79", "aa111"}

(* the thread is running a destructor (lines 89, 126) *)
InDestructor(t) == pc[t] \in {"d89", "da125"}

(* the nested lock() never returns: the thread waits for itself *)
ReenterBlocks(t) ==
    /\ ~fault
    /\ InConstructor(t) \/ InDestructor(t)
    /\ Goto(t, "relock")
    /\ UNCHANGED <<arena, last, lifo, mix, replay, arena_mutex, call, aligned_ptr,
                   ret, snap, result, wtype>>

(* the nested lock() throws, and the exception leaves the constructor *)
ReenterThrows(t) ==
    /\ ~fault
    /\ InConstructor(t)
    /\ Goto(t, "unwind")
    /\ UNCHANGED <<arena, last, lifo, mix, replay, arena_mutex, call, aligned_ptr,
                   ret, snap, result, wtype>>

(* the nested lock() throws inside a destructor, which is noexcept: *)
(* std::terminate ends the process                                  *)
ReenterTerminates(t) ==
    /\ ~fault
    /\ InDestructor(t)
    /\ fault' = TRUE
    /\ UNCHANGED <<base_ptr, total_size, current_ptr, last, lifo, mix, replay,
                   threads>>

ReentrantNext ==
    \E t \in Threads :
        \/ Enter(t)
        \/ Acquire(t, ConcCalls)
        \/ AllocateSteps(t)
        \/ OtherSteps(t)
        \/ Unlock(t, FALSE)
        \/ ReenterBlocks(t)
        \/ ReenterThrows(t)
        \/ ReenterTerminates(t)
        \/ Unwind(t)

ReentrantSpec == ConcInit /\ [][ReentrantNext]_vars

(* the thread waits for the mutex, and the thread that holds the mutex waits *)
(* for it as well: neither will ever run again                               *)
Deadlocked(t) ==
    /\ pc[t] \in {"lock", "relock"}
    /\ arena_mutex # 0
    /\ pc[arena_mutex] = "relock"

(* C27: no reachable state is a deadlock, also when a constructor or a       *)
(* destructor running inside the critical section calls an operation of the  *)
(* same arena from the same thread                                           *)
C27_NoDeadlock == \A t \in Threads : ~Deadlocked(t)

====
